---- MODULE Spec2Model ----
(***************************************************************************)
(* Model of tools/compile_assets.py: the asset sync driver.                *)
(*                                                                         *)
(* The file system is the state store: fsFiles maps every existing file    *)
(* to its modification time and fsDirs is the set of existing directories. *)
(* A path is a record [root, dir, name]: root is the input or the output   *)
(* directory, dir the chain of subdirectory names below it, name the file  *)
(* name as a sequence of one-character strings, so that splitext and       *)
(* lower() are computed character by character.                            *)
(***************************************************************************)
EXTENDS Integers, Sequences, FiniteSets, TLC

VARIABLES
    fsFiles,               \* existing file -> modification time
    fsDirs,                \* existing directories
    compilerExists,        \* os.path.exists(compiler_path)
    now,                   \* the clock the compiler's output is stamped with
    pc,                    \* "start", "walk", "compile", "done"
    todo,                  \* the files the walk has still to yield
    cur,                   \* the (src, dst) of the pending compiler call
    log,                   \* the lines printed
    calls,                 \* the subprocess.run calls made
    outcome,               \* "none", "returned", "raised"
    run,                   \* the number of the current run
    supported_extensions,  \* the local dict
    walkStart              \* the file system as the current run found it

vars == <<fsFiles, fsDirs, compilerExists, now, pc, todo, cur, log, calls,
          outcome, run, supported_extensions, walkStart>>

\* ---------------------------------------------------------------- bounds
MaxFiles == 2
MaxTime == 2
NumRuns == 2

\* ------------------------------------------------------- the two roots
input_dir == "tests/assets"
output_dir == "build/tests/assets"

\* -------------------------------------------- file names under test
\* name: a file name; stem/out: what os.path.splitext, str.lower and the
\* table of section 6 give for it (out = <<>>: not a recognized file).
Tabulated ==
    {
      [name |-> <<"a", ".", "o", "b", "j">>, stem |-> <<"a">>, out |-> <<".", "t", "m", "o", "d", "e", "l">>],
      [name |-> <<"a", ".", "O", "B", "J">>, stem |-> <<"a">>, out |-> <<".", "t", "m", "o", "d", "e", "l">>],
      [name |-> <<"a", ".", "O", "b", "j">>, stem |-> <<"a">>, out |-> <<".", "t", "m", "o", "d", "e", "l">>],
      [name |-> <<"a", ".", "f", "b", "x">>, stem |-> <<"a">>, out |-> <<".", "t", "m", "o", "d", "e", "l">>],
      [name |-> <<"a", ".", "F", "B", "X">>, stem |-> <<"a">>, out |-> <<".", "t", "m", "o", "d", "e", "l">>],
      [name |-> <<"a", ".", "F", "b", "x">>, stem |-> <<"a">>, out |-> <<".", "t", "m", "o", "d", "e", "l">>],
      [name |-> <<"a", ".", "g", "l", "t", "f">>, stem |-> <<"a">>, out |-> <<".", "t", "m", "o", "d", "e", "l">>],
      [name |-> <<"a", ".", "G", "L", "T", "F">>, stem |-> <<"a">>, out |-> <<".", "t", "m", "o", "d", "e", "l">>],
      [name |-> <<"a", ".", "G", "l", "t", "f">>, stem |-> <<"a">>, out |-> <<".", "t", "m", "o", "d", "e", "l">>],
      [name |-> <<"a", ".", "g", "l", "b">>, stem |-> <<"a">>, out |-> <<".", "t", "m", "o", "d", "e", "l">>],
      [name |-> <<"a", ".", "G", "L", "B">>, stem |-> <<"a">>, out |-> <<".", "t", "m", "o", "d", "e", "l">>],
      [name |-> <<"a", ".", "G", "l", "b">>, stem |-> <<"a">>, out |-> <<".", "t", "m", "o", "d", "e", "l">>],
      [name |-> <<"a", ".", "p", "n", "g">>, stem |-> <<"a">>, out |-> <<".", "t", "t", "e", "x">>],
      [name |-> <<"a", ".", "P", "N", "G">>, stem |-> <<"a">>, out |-> <<".", "t", "t", "e", "x">>],
      [name |-> <<"a", ".", "P", "n", "g">>, stem |-> <<"a">>, out |-> <<".", "t", "t", "e", "x">>],
      [name |-> <<"a", ".", "j", "p", "g">>, stem |-> <<"a">>, out |-> <<".", "t", "t", "e", "x">>],
      [name |-> <<"a", ".", "J", "P", "G">>, stem |-> <<"a">>, out |-> <<".", "t", "t", "e", "x">>],
      [name |-> <<"a", ".", "J", "p", "g">>, stem |-> <<"a">>, out |-> <<".", "t", "t", "e", "x">>],
      [name |-> <<"a", ".", "j", "p", "e", "g">>, stem |-> <<"a">>, out |-> <<".", "t", "t", "e", "x">>],
      [name |-> <<"a", ".", "J", "P", "E", "G">>, stem |-> <<"a">>, out |-> <<".", "t", "t", "e", "x">>],
      [name |-> <<"a", ".", "J", "p", "e", "g">>, stem |-> <<"a">>, out |-> <<".", "t", "t", "e", "x">>],
      [name |-> <<"a", ".", "t", "g", "a">>, stem |-> <<"a">>, out |-> <<".", "t", "t", "e", "x">>],
      [name |-> <<"a", ".", "T", "G", "A">>, stem |-> <<"a">>, out |-> <<".", "t", "t", "e", "x">>],
      [name |-> <<"a", ".", "T", "g", "a">>, stem |-> <<"a">>, out |-> <<".", "t", "t", "e", "x">>],
      [name |-> <<"a", ".", "b", "m", "p">>, stem |-> <<"a">>, out |-> <<".", "t", "t", "e", "x">>],
      [name |-> <<"a", ".", "B", "M", "P">>, stem |-> <<"a">>, out |-> <<".", "t", "t", "e", "x">>],
      [name |-> <<"a", ".", "B", "m", "p">>, stem |-> <<"a">>, out |-> <<".", "t", "t", "e", "x">>],
      [name |-> <<"m", ".", "t", "a", "r", ".", "g", "l", "b">>, stem |-> <<"m", ".", "t", "a", "r">>, out |-> <<".", "t", "m", "o", "d", "e", "l">>],
      [name |-> <<".", ".", "p", "n", "g">>, stem |-> <<>>, out |-> <<>>],
      [name |-> <<"a", ".", "t", "x", "t">>, stem |-> <<>>, out |-> <<>>],
      [name |-> <<"a", ".", "T", "X", "T">>, stem |-> <<>>, out |-> <<>>],
      [name |-> <<"a", ".", "t", "t", "e", "x">>, stem |-> <<>>, out |-> <<>>],
      [name |-> <<"a", ".", "t", "m", "o", "d", "e", "l">>, stem |-> <<>>, out |-> <<>>],
      [name |-> <<"a", ".", "p", "n">>, stem |-> <<>>, out |-> <<>>],
      [name |-> <<"a", ".", "p", "n", "g", "x">>, stem |-> <<>>, out |-> <<>>],
      [name |-> <<"a">>, stem |-> <<>>, out |-> <<>>],
      [name |-> <<"a", ".">>, stem |-> <<>>, out |-> <<>>],
      [name |-> <<".", "b", "m", "p">>, stem |-> <<>>, out |-> <<>>],
      [name |-> <<".", "P", "N", "G">>, stem |-> <<>>, out |-> <<>>],
      [name |-> <<"a", ".", "p", "n", "g", ".", "b", "a", "k">>, stem |-> <<>>, out |-> <<>>],
      [name |-> <<"p", "n", "g">>, stem |-> <<>>, out |-> <<>>],
      [name |-> <<"m", ".", "O", "b", "j">>, stem |-> <<"m">>, out |-> <<".", "t", "m", "o", "d", "e", "l">>],
      [name |-> <<"m", ".", "t", "m", "o", "d", "e", "l">>, stem |-> <<>>, out |-> <<>>] }

FileNames == { e.name : e \in Tabulated }

\* Files the small trees are built from: two sources that map to the same
\* destination, an unrecognized dot file and an asset in a subdirectory.
TreeFiles ==
    { [dir |-> <<>>, name |-> <<"a", ".", "p", "n", "g">>],
      [dir |-> <<>>, name |-> <<"a", ".", "J", "P", "G">>],
      [dir |-> <<"sub">>, name |-> <<".", "b", "m", "p">>],
      [dir |-> <<"sub">>, name |-> <<"m", ".", "O", "b", "j">>] }

\* ------------------------------------------------------ string helpers
UpperCase == <<"A", "B", "C", "D", "E", "F", "G", "H", "I", "J", "K", "L", "M",
               "N", "O", "P", "Q", "R", "S", "T", "U", "V", "W", "X", "Y", "Z">>
LowerCase == <<"a", "b", "c", "d", "e", "f", "g", "h", "i", "j", "k", "l", "m",
               "n", "o", "p", "q", "r", "s", "t", "u", "v", "w", "x", "y", "z">>

LowerChar(c) ==
    IF \E i \in DOMAIN UpperCase : UpperCase[i] = c
    THEN LowerCase[CHOOSE i \in DOMAIN UpperCase : UpperCase[i] = c]
    ELSE c

LowerIdentity(s) == s

\* str.lower()
Lower(s) == [i \in DOMAIN s |-> LowerChar(s[i])]

SplitExtNaive(name) ==
    LET dots == { i \in DOMAIN name : name[i] = "." }
        dotIndex == IF dots = {} THEN 0
                    ELSE CHOOSE i \in dots : \A j \in dots : j <= i
    IN  IF dotIndex > 0
        THEN <<SubSeq(name, 1, dotIndex - 1), SubSeq(name, dotIndex, Len(name))>>
        ELSE <<name, <<>> >>

\* os.path.splitext on a file name: the extension starts at the last dot,
\* unless only dots precede it.
SplitExt(name) ==
    LET dots == { i \in DOMAIN name : name[i] = "." }
        dotIndex == IF dots = {} THEN 0
                    ELSE CHOOSE i \in dots : \A j \in dots : j <= i
    IN  IF dotIndex > 0 /\ \E k \in 1..(dotIndex - 1) : name[k] # "."
        THEN <<SubSeq(name, 1, dotIndex - 1), SubSeq(name, dotIndex, Len(name))>>
        ELSE <<name, <<>> >>

\* the dict literal
ExtensionTable ==
    { << <<".", "o", "b", "j">>,      <<".", "t", "m", "o", "d", "e", "l">> >>,
      << <<".", "f", "b", "x">>,      <<".", "t", "m", "o", "d", "e", "l">> >>,
      << <<".", "g", "l", "t", "f">>, <<".", "t", "m", "o", "d", "e", "l">> >>,
      << <<".", "g", "l", "b">>,      <<".", "t", "m", "o", "d", "e", "l">> >>,
      << <<".", "p", "n", "g">>,      <<".", "t", "t", "e", "x">> >>,
      << <<".", "j", "p", "g">>,      <<".", "t", "t", "e", "x">> >>,
      << <<".", "j", "p", "e", "g">>, <<".", "t", "t", "e", "x">> >>,
      << <<".", "t", "g", "a">>,      <<".", "t", "t", "e", "x">> >>,
      << <<".", "b", "m", "p">>,      <<".", "t", "t", "e", "x">> >> }

SupportedExtensions ==
    [e \in { p[1] : p \in ExtensionTable } |->
        (CHOOSE p \in ExtensionTable : p[1] = e)[2]]

NoExtensions == [e \in {} |-> <<>>]

\* ext = os.path.splitext(file)[1].lower()
ExtOf(name) == Lower(SplitExt(name)[2])

\* ------------------------------------------------------- path helpers
\* os.path.join(root, file), root being a directory below input_dir
SrcPath(f) == [root |-> input_dir, dir |-> f.dir, name |-> f.name]

\* os.path.relpath(src_path, input_dir)
RelPath(p) == [dir |-> p.dir, name |-> p.name]

DstPathFlat(rel, mapped) ==
    [root |-> output_dir, dir |-> <<>>,
     name |-> SplitExt(rel.name)[1] \o mapped]

DstPathInPlace(rel, mapped) ==
    [root |-> input_dir, dir |-> rel.dir,
     name |-> SplitExt(rel.name)[1] \o mapped]

\* os.path.join(output_dir, os.path.splitext(rel_path)[0] + mapped): splitext
\* looks for the dot after the last separator, so the directory chain stays.
DstPath(rel, mapped) ==
    [root |-> output_dir, dir |-> rel.dir,
     name |-> SplitExt(rel.name)[1] \o mapped]

\* os.path.dirname
Dirname(p) == [root |-> p.root, dir |-> p.dir]

Ancestors(d) == { [root |-> d.root, dir |-> SubSeq(d.dir, 1, k)] : k \in 0..Len(d.dir) }

\* os.makedirs(d, exist_ok=True): d and every missing ancestor
MakeDirs(d) == fsDirs \cup Ancestors(d)

\* os.path.exists
Exists(p) == p \in DOMAIN fsFiles

NeedCompileStrict(src, dst) ==
    IF Exists(dst)
    THEN ~(fsFiles[dst] > fsFiles[src])
    ELSE TRUE

NeedCompileAlways(src, dst) == TRUE

\* the time-stamp check
NeedCompile(src, dst) ==
    IF Exists(dst)
    THEN ~(fsFiles[dst] >= fsFiles[src])
    ELSE TRUE

CaughtNothing(result) == FALSE

CaughtAll(result) == TRUE

\* except subprocess.CalledProcessError: a nonzero exit status is caught,
\* a compiler that cannot be started (OSError) is not.
Caught(result) == result = "nonzero"

\* --------------------------------------------------------- initial states
\* A file of the trees as Tabulated describes it: whether it is an asset, its
\* source path and the destination that mirrors it.
Entry(f) == CHOOSE e \in Tabulated : e.name = f.name
IsAsset(f) == Entry(f).out # <<>>
Source(f) == [root |-> input_dir, dir |-> f.dir, name |-> f.name]
Mirror(f) == [root |-> output_dir, dir |-> f.dir,
              name |-> Entry(f).stem \o Entry(f).out]
\* the input trees: up to MaxFiles of TreeFiles, or one file of FileNames
Trees ==
    { S \in SUBSET TreeFiles : Cardinality(S) <= MaxFiles }
    \cup { { [dir |-> <<>>, name |-> n] } : n \in FileNames }

OutDirUniverse == Ancestors([root |-> output_dir, dir |-> <<"sub">>])

InputDirsOf(S) ==
    { [root |-> input_dir, dir |-> <<>>] }
    \cup UNION { Ancestors(Dirname(Source(f))) : f \in S }

\* a file system: the sources S with times mt, the destinations with times
\* og (0: absent)
FileSystem(S, mt, og) ==
    LET srcs == { Source(f) : f \in S }
        dsts == { d \in DOMAIN og : og[d] > 0 }
    IN  [p \in srcs \cup dsts |->
            IF p \in srcs THEN mt[RelPath(p)] ELSE og[p]]

\* no compiler call is pending
NoCall == [src |-> <<>>, dst |-> <<>>]

\* The destinations already present were written on this machine, so none
\* is later than the clock; a source may carry any time.
Init ==
    /\ now \in 1..MaxTime
    /\ \E S \in Trees : \E mt \in [S -> 1..MaxTime] :
         LET D == { Mirror(f) : f \in { g \in S : IsAsset(g) } }
         IN  \E og \in [D -> 0..MaxTime] : \E od \in SUBSET OutDirUniverse :
               /\ \A d \in od : Ancestors(d) \subseteq od
               /\ \A p \in D : og[p] > 0 => Dirname(p) \in od
               /\ \A p \in D : og[p] <= now
               /\ fsFiles = FileSystem(S, mt, og)
               /\ fsDirs = InputDirsOf(S) \cup od
    /\ compilerExists \in BOOLEAN
    /\ pc = "start"
    /\ todo = <<>>
    /\ cur = NoCall
    /\ log = <<>>
    /\ calls = <<>>
    /\ outcome = "none"
    /\ run = 1
    /\ supported_extensions = NoExtensions
    /\ walkStart = [files |-> fsFiles, dirs |-> fsDirs]

\* ------------------------------------------------------------ the walk
IsPrefix(p, d) == Len(p) <= Len(d) /\ SubSeq(d, 1, Len(p)) = p

InputFiles == { RelPath(p) : p \in { q \in DOMAIN fsFiles : q.root = input_dir } }

\* the orders os.walk (top-down) can yield the files in: a directory's own
\* files come before those of its subdirectories, and a subtree is finished
\* before the next one is entered.
Walks(S) ==
    LET n == Cardinality(S)
    IN  { w \in [1..n -> S] :
            /\ \A i, j \in 1..n : i # j => w[i] # w[j]
            /\ \A i, j \in 1..n :
                 i < j => ~(w[j].dir # w[i].dir /\ IsPrefix(w[j].dir, w[i].dir))
            /\ \A i, j, k \in 1..n :
                 (i < j /\ j < k) =>
                    \A m \in 0..Len(w[i].dir) :
                       LET p == SubSeq(w[i].dir, 1, m)
                       IN  IsPrefix(p, w[k].dir) => IsPrefix(p, w[j].dir) }

ErrorLine == [run |-> run, kind |-> "Error", file |-> [dir |-> <<>>, name |-> <<>>]]
CompilingLine(rel) == [run |-> run, kind |-> "Compiling", file |-> rel]
FailedLine(src) == [run |-> run, kind |-> "Failed", file |-> RelPath(src)]

\* ------------------------------------------------------------- actions
CompilerMissingNever == FALSE

\* if not os.path.exists(compiler_path)
CompilerMissing == ~compilerExists

\* compile_assets is entered: the compiler check, the table, the walk
Start ==
    /\ pc = "start"
    /\ walkStart' = [files |-> fsFiles, dirs |-> fsDirs]
    /\ IF CompilerMissing
       THEN /\ log' = Append(log, ErrorLine)
            /\ pc' = "done"
            /\ outcome' = "returned"
            /\ UNCHANGED <<todo, supported_extensions>>
       ELSE /\ supported_extensions' = SupportedExtensions
            /\ todo' \in Walks(InputFiles)
            /\ pc' = "walk"
            /\ UNCHANGED <<log, outcome>>
    /\ UNCHANGED <<fsFiles, fsDirs, compilerExists, now, cur, calls, run>>

\* one iteration of the inner loop up to the compiler call: classification,
\* paths, makedirs, the time-stamp check and the "Compiling" line
Examine ==
    /\ pc = "walk"
    /\ todo # <<>>
    /\ todo' = Tail(todo)
    /\ LET file == Head(todo)
           ext == ExtOf(file.name)
       IN  IF ext \notin DOMAIN supported_extensions
           THEN UNCHANGED <<fsDirs, pc, cur, log>>
           ELSE LET src_path == SrcPath(file)
                    rel_path == RelPath(src_path)
                    dst_path == DstPath(rel_path, supported_extensions[ext])
                IN  /\ fsDirs' = MakeDirs(Dirname(dst_path))
                    /\ IF NeedCompile(src_path, dst_path)
                       THEN /\ log' = Append(log, CompilingLine(rel_path))
                            /\ cur' = [src |-> src_path, dst |-> dst_path]
                            /\ pc' = "compile"
                       ELSE UNCHANGED <<pc, cur, log>>
    /\ UNCHANGED <<fsFiles, compilerExists, now, calls, outcome, run,
                   supported_extensions, walkStart>>

\* subprocess.run([compiler_path, src_path, dst_path], check=True) and the
\* except clause.  The compiler may have vanished since the check; if it
\* runs it exits zero, having written dst_path at the time of the clock, or
\* nonzero.
Invoke ==
    /\ pc = "compile"
    /\ \E alive \in { b \in BOOLEAN : b => compilerExists } :
       \E result \in (IF alive THEN {"ok", "nonzero"} ELSE {"nostart"}) :
         /\ compilerExists' = alive
         /\ calls' = Append(calls, [run |-> run, src |-> cur.src,
                                    dst |-> cur.dst, result |-> result,
                                    at |-> now])
         /\ fsFiles' =
               IF result = "ok"
               THEN [p \in DOMAIN fsFiles \cup {cur.dst} |->
                        IF p = cur.dst THEN now ELSE fsFiles[p]]
               ELSE fsFiles
         /\ IF result = "ok"
            THEN /\ pc' = "walk"
                 /\ UNCHANGED <<log, outcome>>
            ELSE IF Caught(result)
            THEN /\ log' = Append(log, FailedLine(cur.src))
                 /\ pc' = "walk"
                 /\ UNCHANGED outcome
            ELSE /\ pc' = "done"
                 /\ outcome' = "raised"
                 /\ UNCHANGED log
    /\ cur' = NoCall
    /\ UNCHANGED <<fsDirs, now, todo, run, supported_extensions, walkStart>>

\* the walk is exhausted: compile_assets returns
Finish ==
    /\ pc = "walk"
    /\ todo = <<>>
    /\ pc' = "done"
    /\ outcome' = "returned"
    /\ UNCHANGED <<fsFiles, fsDirs, compilerExists, now, todo, cur, log, calls,
                   run, supported_extensions, walkStart>>

\* the script is run again in succession: same trees, same compiler path,
\* the clock at the same tick or the next
Rerun ==
    /\ pc = "done"
    /\ run < NumRuns
    /\ run' = run + 1
    /\ pc' = "start"
    /\ outcome' = "none"
    /\ todo' = <<>>
    /\ now' \in { u \in {now, now + 1} : u <= MaxTime }
    /\ supported_extensions' = NoExtensions
    /\ UNCHANGED <<fsFiles, fsDirs, compilerExists, cur, log, calls, walkStart>>

Next == Start \/ Examine \/ Invoke \/ Finish \/ Rerun

Spec == Init /\ [][Next]_vars

\* ================================================================ claims
\* What the properties below say of a file is stated from Tabulated and the
\* file system, not from the operators the actions use.
Last(s) == s[Len(s)]
StaleIn(files, f) ==
    \/ Mirror(f) \notin DOMAIN files
    \/ files[Mirror(f)] < files[Source(f)]
RunCalls(r) == { i \in DOMAIN calls : calls[i].run = r }
Aborted(r) == \E i \in DOMAIN log : log[i].run = r /\ log[i].kind = "Error"
Sources == { f \in [dir : {<<>>, <<"sub">>}, name : FileNames] :
               Source(f) \in DOMAIN fsFiles }
ExamineStep == pc = "walk" /\ todo # <<>> /\ todo' = Tail(todo)
InvokeStep == pc = "compile" /\ Len(calls') = Len(calls) + 1
Completed == pc = "done" /\ outcome = "returned" /\ ~Aborted(run)

\* C1: a recognized file is handed to the compiler exactly when, as it is
\* examined, its destination is absent or strictly older than it; with the
\* destination as new as the source or newer nothing is invoked for it.
C1_StalenessDecision ==
    [][ /\ (ExamineStep /\ IsAsset(Head(todo))) =>
             LET f == Head(todo)
             IN  /\ StaleIn(fsFiles, f) <=>
                       (pc' = "compile" /\ cur' = [src |-> Source(f), dst |-> Mirror(f)])
                 /\ ~StaleIn(fsFiles, f) => (pc' = "walk" /\ calls' = calls)
        /\ InvokeStep =>
             /\ calls' = Append(calls, Last(calls'))
             /\ Last(calls').src = cur.src
             /\ Last(calls').dst = cur.dst
        /\ calls' # calls => InvokeStep ]_vars

\* a run that compiled one file and left alone another whose destination is
\* exactly as old as its source
C1_Witness ==
    /\ Completed
    /\ run = 1
    /\ \E f, g \in Sources :
         /\ IsAsset(f) /\ IsAsset(g)
         /\ \E i \in RunCalls(1) : calls[i].src = Source(f)
         /\ \A i \in RunCalls(1) : calls[i].src # Source(g)
         /\ Mirror(g) \in DOMAIN walkStart.files
         /\ walkStart.files[Mirror(g)] = fsFiles[Source(g)]
         /\ fsFiles[Mirror(g)] = fsFiles[Source(g)]

FirstRunClean ==
    /\ run >= 2
    /\ ~Aborted(1)
    /\ \A i \in RunCalls(1) :
         /\ calls[i].result = "ok"
         /\ fsFiles[calls[i].src] <= calls[i].at

C3_MissingCompilerAborts ==
    [][ (pc = "start" /\ ~compilerExists /\ pc' # pc) =>
           /\ pc' = "done"
           /\ outcome' = "returned"
           /\ Len(log') = Len(log) + 1
           /\ Last(log').kind = "Error"
           /\ SubSeq(log', 1, Len(log)) = log
           /\ todo' = <<>>
           /\ fsDirs' = fsDirs
           /\ fsFiles' = fsFiles
           /\ calls' = calls ]_vars

\* an aborted run over a tree that holds a stale asset whose directory is
\* missing from the output tree
C3_Witness ==
    /\ pc = "done"
    /\ Aborted(run)
    /\ \E f \in Sources :
         /\ IsAsset(f)
         /\ StaleIn(fsFiles, f)
         /\ [root |-> output_dir, dir |-> f.dir] \notin fsDirs

\* C4: a nonzero exit status is logged for its file and costs nothing else:
\* the walk goes on, a run ends in an exception only for a compiler that
\* could not be started, and a run that returns has examined every file,
\* each asset having been handed to the compiler or being up to date.
C4_NonzeroExitIsNotFatal ==
    /\ \A i \in DOMAIN calls :
         calls[i].result = "nonzero" =>
            \E j \in DOMAIN log :
               /\ log[j] = [run |-> calls[i].run, kind |-> "Failed",
                            file |-> [dir |-> calls[i].src.dir,
                                      name |-> calls[i].src.name]]
    /\ (calls # <<>> /\ Last(calls).result = "nonzero" /\ Last(calls).run = run)
          => outcome # "raised"
    /\ outcome = "raised" => Last(calls).result = "nostart"
    /\ Completed =>
          /\ todo = <<>>
          /\ \A f \in Sources :
                IsAsset(f) =>
                   \/ \E i \in RunCalls(run) : calls[i].src = Source(f)
                   \/ ~StaleIn(fsFiles, f)

\* a run that returned after a failed compile and a later successful one
C4_Witness ==
    /\ Completed
    /\ \E i, j \in RunCalls(run) :
         /\ i < j
         /\ calls[i].result = "nonzero"
         /\ calls[j].result = "ok"
         /\ calls[j].dst \in DOMAIN fsFiles

\* C5: examining a file whose extension is not recognized changes nothing:
\* no compiler call is asked for, no file or directory appears, nothing is
\* printed.
C5_UnrecognizedIsSkipped ==
    [][ (ExamineStep /\ ~IsAsset(Head(todo))) =>
           /\ pc' = "walk"
           /\ cur' = cur
           /\ calls' = calls
           /\ log' = log
           /\ fsDirs' = fsDirs
           /\ fsFiles' = fsFiles ]_vars

\* a finished run over a tree with an unrecognized dot file in a
\* subdirectory the output tree still lacks
C5_Witness ==
    /\ Completed
    /\ \E f \in Sources :
         /\ ~IsAsset(f)
         /\ f.name = <<".", "b", "m", "p">>
         /\ [root |-> output_dir, dir |-> f.dir] \notin fsDirs

\* C6: the destination of a file is named as tabulated, whatever the case
\* of its extension, files outside the table are not assets, and the table
\* does not change while the walk lasts.
C6_ExtensionMapping ==
    [][ /\ ExamineStep =>
             LET f == Head(todo)
             IN  IF IsAsset(f)
                 THEN Mirror(f) \notin DOMAIN fsFiles =>
                         /\ pc' = "compile"
                         /\ cur'.dst.name = Entry(f).stem \o Entry(f).out
                 ELSE pc' = "walk"
        /\ pc \in {"walk", "compile"} =>
             supported_extensions' = supported_extensions ]_vars

\* an asset with an upper-case extension was handed to the compiler
C6_Witness ==
    /\ pc = "compile"
    /\ cur.src.name = <<"a", ".", "G", "L", "T", "F">>
    /\ cur.dst.name = <<"a", ".", "t", "m", "o", "d", "e", "l">>

\* C7: a compiler call gets the destination that mirrors its source under
\* output_dir, and the directory of that destination exists when the call
\* is made; examining an asset leaves that directory in place, created or
\* found, without an error.
C7_DirectoryMirroring ==
    [][ /\ (ExamineStep /\ IsAsset(Head(todo))) =>
             /\ Ancestors(Dirname(Mirror(Head(todo)))) \subseteq fsDirs'
             /\ outcome' = outcome
        /\ InvokeStep =>
             LET c == Last(calls')
             IN  /\ c.dst = Mirror([dir |-> c.src.dir, name |-> c.src.name])
                 /\ c.dst.root = output_dir
                 /\ c.dst.dir = c.src.dir
                 /\ Ancestors(Dirname(c.dst)) \subseteq fsDirs ]_vars

\* a call for an asset of a subdirectory that the run had to create
C7_Witness ==
    /\ calls # <<>>
    /\ Last(calls).run = run
    /\ Last(calls).src.dir = <<"sub">>
    /\ Last(calls).dst.dir = <<"sub">>
    /\ Dirname(Last(calls).dst) \notin walkStart.dirs
    /\ Dirname(Last(calls).dst) \in fsDirs

\* C8: no step touches the input tree; the driver's own steps add only
\* directories under output_dir; a file changes only in a compiler call,
\* which writes the destination of the source it was given.
C8_FrameOfTheDriver ==
    [][ /\ \A p \in DOMAIN fsFiles \cup DOMAIN fsFiles' :
             p.root = input_dir =>
                /\ p \in DOMAIN fsFiles
                /\ p \in DOMAIN fsFiles'
                /\ fsFiles'[p] = fsFiles[p]
        /\ DOMAIN fsFiles \subseteq DOMAIN fsFiles'
        /\ fsDirs \subseteq fsDirs'
        /\ \A d \in fsDirs' \ fsDirs : d.root = output_dir
        /\ fsDirs' # fsDirs => (ExamineStep /\ fsFiles' = fsFiles)
        /\ \A p \in DOMAIN fsFiles' :
             (p \notin DOMAIN fsFiles \/ fsFiles'[p] # fsFiles[p]) =>
                /\ InvokeStep
                /\ Last(calls').result = "ok"
                /\ Last(calls').dst = p
                /\ p = Mirror([dir |-> Last(calls').src.dir,
                               name |-> Last(calls').src.name]) ]_vars

\* a run created a directory and its compiler call a file in it
C8_Witness ==
    /\ fsDirs # walkStart.dirs
    /\ \E p \in DOMAIN fsFiles :
         /\ p \notin DOMAIN walkStart.files
         /\ Dirname(p) \notin walkStart.dirs

\* C9 as stated: whatever the order of the walk, a run that returns has
\* invoked the compiler for exactly the assets that were stale when it
\* began, each file being decided on without regard to the others.
C9_OrderInsensitive ==
    Completed =>
       { calls[i].src : i \in RunCalls(run) } =
       { Source(f) : f \in { g \in Sources :
                               IsAsset(g) /\ StaleIn(walkStart.files, g) } }

\* C10: a compiler that cannot be started ends the run in an exception: no
\* failure line is printed for the file, nothing of the walk is left to
\* run, and the only thing that can follow is a new run.
C10_StartFailurePropagates ==
    [][ /\ (InvokeStep /\ Last(calls').result = "nostart") =>
             /\ pc' = "done"
             /\ outcome' = "raised"
             /\ log' = log
             /\ todo' = todo
             /\ fsFiles' = fsFiles
        /\ (InvokeStep /\ ~compilerExists') => Last(calls').result = "nostart"
        /\ (outcome = "raised" /\ pc' # pc) => (run' = run + 1 /\ pc' = "start")
        /\ (outcome = "raised" /\ run' = run) => UNCHANGED vars ]_vars

\* a run ended by a start failure with a stale asset still to be walked
C10_Witness ==
    /\ outcome = "raised"
    /\ Last(log).kind = "Compiling"
    /\ \E k \in DOMAIN todo : IsAsset(todo[k]) /\ StaleIn(fsFiles, todo[k])

====
